---- MODULE Spec2Model ----
(***************************************************************************)
(* State-machine model of src/okx.c: the per-instrument trade window, the  *)
(* per-minute aggregation loop, the moving-average history and the         *)
(* parallel Pearson-correlation workers, with the threads that run them    *)
(* (the websocket callback thread, per_minute_worker, compute_corr_thread) *)
(* and the single mutex ma_mutex.                                          *)
(*                                                                         *)
(* Sizes are scaled so that the state space is finite and small: the       *)
(* values of TRADE_BUFFER_SIZE, MA_HISTORY_SIZE, FIFTEEN_MINUTES,          *)
(* MAX_INSTRUMENTS and MINUTE below are smaller than in the source (the    *)
(* source's values are given next to each).  The code's logic never        *)
(* depends on the particular values.  Doubles are modelled exactly, as     *)
(* reduced rationals (prices, averages, times) and as signed square roots  *)
(* of reduced rationals (correlation coefficients); floating-point         *)
(* rounding is not modelled.                                               *)
(***************************************************************************)
EXTENDS Integers, Sequences, FiniteSets, TLC

\* ------------------------------------------------------------------------
\* Configuration constants (src/okx.c:24-27), scaled.
\* ------------------------------------------------------------------------
\* #define TRADE_BUFFER_SIZE 100000
TRADE_BUFFER_SIZE == 3
\* #define MA_HISTORY_SIZE 8
MA_HISTORY_SIZE == 3
\* #define MAX_INSTRUMENTS 8
MAX_INSTRUMENTS == 3
\* the 60.0 of floor(actual_start / 60.0) * 60.0, in clock ticks
MINUTE == 2
\* #define FIFTEEN_MINUTES (15 * 60), in clock ticks
FIFTEEN_MINUTES == 6
\* sizeof(inst->instrument) - 1, the longest identifier the table stores
NAME_MAX == 15

\* ------------------------------------------------------------------------
\* Bounds of the model.
\* ------------------------------------------------------------------------
\* number of clock ticks after the initial state
MaxTicks == 4
\* number of trade events the transport delivers after the initial state
MaxTrades == 2

\* Identifiers are character sequences.  LongId has NAME_MAX + 1 characters.
IdA == <<"A">>
IdB == <<"B">>
IdC == <<"C">>
LongId == [i \in 1..(NAME_MAX + 1) |-> "X"]
Ids == {IdA, IdB, LongId}
Prices == {1, 2}
Volumes == {1}

\* the string "N/A"
NA == <<"N", "/", "A">>
\* what a double read from beyond an array may be
GarbageDelays == {0, 1}
\* the empty string of zero-initialised static storage
EmptyStr == << >>

\* ------------------------------------------------------------------------
\* Exact arithmetic for the doubles of the program.
\* ------------------------------------------------------------------------
Abs(x) == IF x < 0 THEN -x ELSE x

Sign(x) == IF x < 0 THEN -1 ELSE IF x > 0 THEN 1 ELSE 0

RECURSIVE GCD(_, _)
GCD(a, b) == IF b = 0 THEN a ELSE GCD(b, a % b)

\* the rational n/d (d # 0), reduced, with a positive denominator
Rat(n, d) ==
    LET g == GCD(Abs(n), Abs(d))
        s == IF d < 0 THEN -1 ELSE 1
    IN  [n |-> s * (n \div g), d |-> s * (d \div g)]

RInt(k) == [n |-> k, d |-> 1]
RZero == RInt(0)
RAdd(x, y) == Rat(x.n * y.d + y.n * x.d, x.d * y.d)
RSub(x, y) == Rat(x.n * y.d - y.n * x.d, x.d * y.d)
RMul(x, y) == Rat(x.n * y.n, x.d * y.d)
RDivInt(x, k) == Rat(x.n, x.d * k)
RAbs(x) == [n |-> Abs(x.n), d |-> x.d]
RLt(x, y) == x.n * y.d < y.n * x.d
RGe(x, y) == ~RLt(x, y)

\* A correlation value: NaN, or s * sqrt(n/d) with s in {-1,0,1} and n/d
\* reduced.  The map x |-> sign(x) * x^2 is strictly increasing, so values
\* are compared through it.
NaN == [nan |-> TRUE, s |-> 0, n |-> 0, d |-> 1]
Surd(s, n, d) ==
    LET g == GCD(n, d)
    IN  IF n = 0 \/ s = 0 THEN [nan |-> FALSE, s |-> 0, n |-> 0, d |-> 1]
        ELSE [nan |-> FALSE, s |-> s, n |-> n \div g, d |-> d \div g]
\* the double k, for an integer k
DInt(k) == Surd(Sign(k), k * k, 1)
isnan(c) == c.nan
\* c1 > c2 on doubles; false when either is NaN
DGt(c1, c2) ==
    /\ ~c1.nan /\ ~c2.nan
    /\ c1.s * c1.n * c2.d > c2.s * c2.n * c1.d
DGe(c1, c2) ==
    /\ ~c1.nan /\ ~c2.nan
    /\ c1.s * c1.n * c2.d >= c2.s * c2.n * c1.d
\* num / sqrt(den), for rationals num and den > 0
DivSqrt(num, den) ==
    Surd(Sign(num.n), num.n * num.n * den.d, num.d * num.d * den.n)

\* ------------------------------------------------------------------------
\* Data structures (src/okx.c:36-68, 179-183).
\* ------------------------------------------------------------------------
NULL == -1

\* trade_t; static storage starts zeroed
ZeroTrade == [timestamp |-> 0, price |-> 0, volume |-> 0, delay |-> 0]

\* ma_entry_t (avg_scheduled_delay is never written or read)
ZeroMa == [timestamp |-> 0, moving_avg |-> RZero, total_volume |-> 0,
           avg_delay |-> RZero]

\* moving_avg_t, as the zero-initialised static array holds it
ZeroInstrument ==
    [instrument |-> EmptyStr,
     trades |-> [k \in 0..(TRADE_BUFFER_SIZE - 1) |-> ZeroTrade],
     trade_count |-> 0,
     ma_history |-> [k \in 0..(MA_HISTORY_SIZE - 1) |-> ZeroMa],
     ma_count |-> 0,
     max_corr |-> DInt(0),
     max_corr_symbol |-> EmptyStr,
     max_corr_time |-> 0,
     max_corr_ma_time |-> 0]

\* strncpy(dst, src, n) followed by dst[n] = '\0'
strncpy(src, n) == IF Len(src) <= n THEN src ELSE SubSeq(src, 1, n)

\* ------------------------------------------------------------------------
\* get_instrument (src/okx.c:96-150).
\* ------------------------------------------------------------------------
RECURSIVE find_instrument(_, _, _, _)
\* the lookup loop: index of the first entry whose name strcmp-equals id
find_instrument(tab, num, id, i) ==
    IF i >= num THEN NULL
    ELSE IF tab[i].instrument = id THEN i
    ELSE find_instrument(tab, num, id, i + 1)

table_has_room(num) == num < MAX_INSTRUMENTS

\* the fields get_instrument sets on a new entry
new_instrument(old, id) ==
    [old EXCEPT !.instrument = strncpy(id, NAME_MAX),
                !.trade_count = 0,
                !.ma_count = 0,
                !.max_corr = DInt(-2),
                !.max_corr_symbol = NA,
                !.max_corr_time = 0]

\* variant: a full table drops its oldest entry and moves the others down
get_instrument_evict_oldest(tab, num, id) ==
    LET found == find_instrument(tab, num, id, 0)
        last == MAX_INSTRUMENTS - 1
    IN  IF found # NULL
        THEN [entry |-> found, instruments |-> tab, num_instruments |-> num]
        ELSE IF table_has_room(num)
        THEN [entry |-> num,
              instruments |-> [tab EXCEPT ![num] = new_instrument(tab[num], id)],
              num_instruments |-> num + 1]
        ELSE [entry |-> last,
              instruments |-> [i \in DOMAIN tab |->
                                 IF i < last THEN tab[i + 1]
                                 ELSE new_instrument(tab[i], id)],
              num_instruments |-> num]

\* variant: a full table gives its last entry to the new identifier
get_instrument_reuse_last(tab, num, id) ==
    LET found == find_instrument(tab, num, id, 0)
        last == MAX_INSTRUMENTS - 1
    IN  IF found # NULL
        THEN [entry |-> found, instruments |-> tab, num_instruments |-> num]
        ELSE IF table_has_room(num)
        THEN [entry |-> num,
              instruments |-> [tab EXCEPT ![num] = new_instrument(tab[num], id)],
              num_instruments |-> num + 1]
        ELSE [entry |-> last,
              instruments |-> [tab EXCEPT ![last] = new_instrument(tab[last], id)],
              num_instruments |-> num]

\* result: the entry's index (or NULL), and the table and count afterwards
get_instrument(tab, num, id) ==
    LET found == find_instrument(tab, num, id, 0)
    IN  IF found # NULL
        THEN [entry |-> found, instruments |-> tab, num_instruments |-> num]
        ELSE IF table_has_room(num)
        THEN [entry |-> num,
              instruments |-> [tab EXCEPT ![num] = new_instrument(tab[num], id)],
              num_instruments |-> num + 1]
        ELSE [entry |-> NULL, instruments |-> tab, num_instruments |-> num]

\* ------------------------------------------------------------------------
\* pearson_corr_vector (src/okx.c:154-175).  v1, v2: 0-based arrays of
\* rationals.
\* ------------------------------------------------------------------------
RECURSIVE vec_sum(_, _, _)
\* the sum of f(0) .. f(n-1), accumulated in index order
vec_sum(f, n, i) == IF i >= n THEN RZero ELSE RAdd(f[i], vec_sum(f, n, i + 1))

vec_mean(v, n) == RDivInt(vec_sum(v, n, 0), n)

\* variant: the product of the sums of squares is not put under a root
pearson_without_sqrt(v1, v2, n) ==
    IF n < 2 THEN NaN
    ELSE
    LET mean1 == vec_mean(v1, n)
        mean2 == vec_mean(v2, n)
        d1 == [i \in 0..(n - 1) |-> RSub(v1[i], mean1)]
        d2 == [i \in 0..(n - 1) |-> RSub(v2[i], mean2)]
        num == vec_sum([i \in 0..(n - 1) |-> RMul(d1[i], d2[i])], n, 0)
        den1 == vec_sum([i \in 0..(n - 1) |-> RMul(d1[i], d1[i])], n, 0)
        den2 == vec_sum([i \in 0..(n - 1) |-> RMul(d2[i], d2[i])], n, 0)
    IN  IF den1 = RZero \/ den2 = RZero THEN NaN
        ELSE DivSqrt(num, RMul(RMul(den1, den2), RMul(den1, den2)))

\* variant: a vector without variance gives the correlation 0
pearson_zero_for_constant(v1, v2, n) ==
    IF n < 2 THEN NaN
    ELSE
    LET mean1 == vec_mean(v1, n)
        mean2 == vec_mean(v2, n)
        d1 == [i \in 0..(n - 1) |-> RSub(v1[i], mean1)]
        d2 == [i \in 0..(n - 1) |-> RSub(v2[i], mean2)]
        num == vec_sum([i \in 0..(n - 1) |-> RMul(d1[i], d2[i])], n, 0)
        den1 == vec_sum([i \in 0..(n - 1) |-> RMul(d1[i], d1[i])], n, 0)
        den2 == vec_sum([i \in 0..(n - 1) |-> RMul(d2[i], d2[i])], n, 0)
    IN  IF den1 = RZero \/ den2 = RZero THEN DInt(0)
        ELSE DivSqrt(num, RMul(den1, den2))

pearson_corr_vector(v1, v2, n) ==
    IF n < 2 THEN NaN
    ELSE
    LET mean1 == vec_mean(v1, n)
        mean2 == vec_mean(v2, n)
        d1 == [i \in 0..(n - 1) |-> RSub(v1[i], mean1)]
        d2 == [i \in 0..(n - 1) |-> RSub(v2[i], mean2)]
        num == vec_sum([i \in 0..(n - 1) |-> RMul(d1[i], d2[i])], n, 0)
        den1 == vec_sum([i \in 0..(n - 1) |-> RMul(d1[i], d1[i])], n, 0)
        den2 == vec_sum([i \in 0..(n - 1) |-> RMul(d2[i], d2[i])], n, 0)
    IN  IF den1 = RZero \/ den2 = RZero THEN NaN
        ELSE DivSqrt(num, RMul(den1, den2))

\* ------------------------------------------------------------------------
\* compute_moving_avg_and_volume (src/okx.c:353-383).
\* ------------------------------------------------------------------------
\* variant: a trade exactly FIFTEEN_MINUTES old is dropped
in_window_strict(trade, now) == trade.timestamp > now - FIFTEEN_MINUTES

in_window(trade, now) == trade.timestamp >= now - FIFTEEN_MINUTES

RECURSIVE cmav_loop(_, _, _, _)
\* the loop of lines 359-368; acc holds the running sums and temp[]
cmav_loop(entry, now, i, acc) ==
    IF i >= entry.trade_count THEN acc
    ELSE cmav_loop(entry, now, i + 1,
            IF in_window(entry.trades[i], now)
            THEN [sum_price |-> acc.sum_price + entry.trades[i].price,
                  total_vol |-> acc.total_vol + entry.trades[i].volume,
                  processing_delay_sum |->
                      acc.processing_delay_sum + entry.trades[i].delay,
                  temp |-> Append(acc.temp, entry.trades[i]),
                  count |-> acc.count + 1]
            ELSE acc)

\* result: the entry with its window trimmed, and *ma_out
compute_moving_avg_and_volume(entry, now) ==
    LET acc == cmav_loop(entry, now, 0,
                   [sum_price |-> 0, total_vol |-> 0,
                    processing_delay_sum |-> 0, temp |-> << >>, count |-> 0])
        new_trade_count == Len(acc.temp)
        \* memcpy(entry->trades, temp, new_trade_count * sizeof(trade_t))
        trades2 == [k \in 0..(TRADE_BUFFER_SIZE - 1) |->
                       IF k < new_trade_count THEN acc.temp[k + 1]
                       ELSE entry.trades[k]]
    IN  [entry |-> [entry EXCEPT !.trades = trades2,
                                 !.trade_count = new_trade_count],
         ma_out |->
            IF acc.count > 0
            THEN [timestamp |-> now,
                  moving_avg |-> Rat(acc.sum_price, acc.count),
                  total_volume |-> acc.total_vol,
                  avg_delay |-> Rat(acc.processing_delay_sum, acc.count)]
            ELSE [timestamp |-> now, moving_avg |-> RZero,
                  total_volume |-> 0, avg_delay |-> RZero]]

\* ------------------------------------------------------------------------
\* The history push of per_minute_worker (src/okx.c:433-441).
\* ------------------------------------------------------------------------
history_has_room(entry) == entry.ma_count < MA_HISTORY_SIZE

\* variant: a minute without trades pushes no record
push_ma_unless_idle(entry, new_ma) ==
    IF new_ma.total_volume = 0 THEN entry
    ELSE IF history_has_room(entry)
    THEN [entry EXCEPT !.ma_history[entry.ma_count] = new_ma,
                       !.ma_count = entry.ma_count + 1]
    ELSE [entry EXCEPT !.ma_history =
             [k \in 0..(MA_HISTORY_SIZE - 1) |->
                 IF k < MA_HISTORY_SIZE - 1 THEN entry.ma_history[k + 1]
                 ELSE new_ma]]

\* variant: a full history overwrites its newest record and shifts nothing
push_ma_no_shift(entry, new_ma) ==
    IF history_has_room(entry)
    THEN [entry EXCEPT !.ma_history[entry.ma_count] = new_ma,
                       !.ma_count = entry.ma_count + 1]
    ELSE [entry EXCEPT !.ma_history[MA_HISTORY_SIZE - 1] = new_ma]

push_ma(entry, new_ma) ==
    IF history_has_room(entry)
    THEN [entry EXCEPT !.ma_history[entry.ma_count] = new_ma,
                       !.ma_count = entry.ma_count + 1]
    ELSE [entry EXCEPT !.ma_history =
             [k \in 0..(MA_HISTORY_SIZE - 1) |->
                 IF k < MA_HISTORY_SIZE - 1 THEN entry.ma_history[k + 1]
                 ELSE new_ma]]

\* ------------------------------------------------------------------------
\* The computation of compute_corr_thread (src/okx.c:196-247), on the
\* snapshot array data[0 .. total-1] of corr_data_t.
\* ------------------------------------------------------------------------
\* the vector of moving_avg values of a snapshot entry (lines 209-212)
ma_vector(cd) == [k \in 0..(MA_HISTORY_SIZE - 1) |-> cd.ma[k].moving_avg]

\* variant: an equal correlation replaces the running maximum too
is_new_max_or_equal(corr, max_corr) == ~isnan(corr) /\ DGe(corr, max_corr)

\* variant: the comparison is the wrong way round
is_new_max_reversed(corr, max_corr) == ~isnan(corr) /\ DGt(max_corr, corr)

\* line 218: the peer's correlation replaces the running maximum
is_new_max(corr, max_corr) == ~isnan(corr) /\ DGt(corr, max_corr)

RECURSIVE max_contrib_loop_keep_earlier(_, _, _, _, _, _, _)
\* variant: an index found for an earlier peer is kept
max_contrib_loop_keep_earlier(ma1, ma2, mean1, mean2, k, max_contrib, max_ma_index) ==
    IF k >= MA_HISTORY_SIZE \/ (k = 0 /\ max_ma_index # -1) THEN max_ma_index
    ELSE LET contrib == RAbs(RMul(RSub(ma1[k], mean1), RSub(ma2[k], mean2)))
         IN  IF RLt(max_contrib, contrib)
             THEN max_contrib_loop_keep_earlier(ma1, ma2, mean1, mean2, k + 1,
                                                contrib, k)
             ELSE max_contrib_loop_keep_earlier(ma1, ma2, mean1, mean2, k + 1,
                                                max_contrib, max_ma_index)

RECURSIVE max_contrib_loop(_, _, _, _, _, _, _)
\* lines 233-240: the index k with the largest |(ma1[k]-mean1)*(ma2[k]-mean2)|,
\* first such k; max_contrib starts at -1.0
max_contrib_loop(ma1, ma2, mean1, mean2, k, max_contrib, max_ma_index) ==
    IF k >= MA_HISTORY_SIZE THEN max_ma_index
    ELSE LET contrib == RAbs(RMul(RSub(ma1[k], mean1), RSub(ma2[k], mean2)))
         IN  IF RLt(max_contrib, contrib)
             THEN max_contrib_loop(ma1, ma2, mean1, mean2, k + 1, contrib, k)
             ELSE max_contrib_loop(ma1, ma2, mean1, mean2, k + 1,
                                   max_contrib, max_ma_index)

\* the locals of compute_corr_thread at line 198-201
corr_locals_init ==
    [max_corr |-> DInt(-2), max_sym |-> NA, max_ma_time |-> 0,
     max_ma_index |-> -1]

\* a thread's corr_thread_arg_t (total, current_time), its global_idx of line
\* 250 and its locals; NoThread is a thread that is not running
NoThread ==
    [total |-> 0, current_time |-> 0, global_idx |-> NULL,
     st |-> corr_locals_init]

RECURSIVE corr_loop(_, _, _, _, _)
\* the loop over j of lines 203-247
corr_loop(data, idx, total, j, st) ==
    IF j >= total THEN st
    ELSE IF j = idx THEN corr_loop(data, idx, total, j + 1, st)
    ELSE
    LET ma1 == ma_vector(data[idx])
        ma2 == ma_vector(data[j])
        corr == pearson_corr_vector(ma1, ma2, MA_HISTORY_SIZE)
    IN  IF is_new_max(corr, st.max_corr)
        THEN LET mean1 == vec_mean(ma1, MA_HISTORY_SIZE)
                 mean2 == vec_mean(ma2, MA_HISTORY_SIZE)
                 mi == max_contrib_loop(ma1, ma2, mean1, mean2, 0,
                                        RInt(-1), st.max_ma_index)
             IN  corr_loop(data, idx, total, j + 1,
                    [max_corr |-> corr,
                     max_sym |-> strncpy(data[j].instrument, NAME_MAX),
                     max_ma_time |-> IF mi # -1 THEN data[idx].ma[mi].timestamp
                                     ELSE st.max_ma_time,
                     max_ma_index |-> mi])
        ELSE corr_loop(data, idx, total, j + 1, st)

\* variant: a thread that found no peer writes nothing
write_back_unless_none(entry, st, current_time) ==
    IF st.max_corr = DInt(-2) THEN entry
    ELSE [entry EXCEPT !.max_corr_symbol = strncpy(st.max_sym, NAME_MAX),
                       !.max_corr = st.max_corr,
                       !.max_corr_time = current_time,
                       !.max_corr_ma_time = st.max_ma_time]

\* lines 253-257: the write-back into instruments[global_idx]
write_back(entry, st, current_time) ==
    [entry EXCEPT !.max_corr_symbol = strncpy(st.max_sym, NAME_MAX),
                  !.max_corr = st.max_corr,
                  !.max_corr_time = current_time,
                  !.max_corr_ma_time = st.max_ma_time]

\* ------------------------------------------------------------------------
\* The snapshot of per_minute_worker (src/okx.c:449-462).
\* ------------------------------------------------------------------------
has_full_history(entry) == entry.ma_count >= MA_HISTORY_SIZE

RECURSIVE build_corr_array_any_history(_, _, _, _)
\* variant: an instrument with any history at all is copied
build_corr_array_any_history(tab, num, i, arr) ==
    IF i >= num THEN arr
    ELSE build_corr_array_any_history(tab, num, i + 1,
            IF tab[i].ma_count > 0
            THEN LET valid_count == Cardinality(DOMAIN arr)
                 IN  [k \in 0..valid_count |->
                        IF k < valid_count THEN arr[k]
                        ELSE [global_index |-> i,
                              instrument |-> strncpy(tab[i].instrument, NAME_MAX),
                              ma |-> tab[i].ma_history]]
            ELSE arr)

RECURSIVE build_corr_array(_, _, _, _)
\* corr_array[0 .. valid_count-1], as a 0-based array grown in table order
build_corr_array(tab, num, i, arr) ==
    IF i >= num THEN arr
    ELSE build_corr_array(tab, num, i + 1,
            IF has_full_history(tab[i])
            THEN LET valid_count == Cardinality(DOMAIN arr)
                 IN  [k \in 0..valid_count |->
                        IF k < valid_count THEN arr[k]
                        ELSE [global_index |-> i,
                              instrument |-> strncpy(tab[i].instrument, NAME_MAX),
                              ma |-> tab[i].ma_history]]
            ELSE arr)

RECURSIVE aggregate_all(_, _, _, _)
\* the loop of lines 430-447 over the whole table
aggregate_all(tab, num, now, i) ==
    IF i >= num THEN tab
    ELSE LET r == compute_moving_avg_and_volume(tab[i], now)
         IN  aggregate_all([tab EXCEPT ![i] = push_ma(r.entry, r.ma_out)],
                           num, now, i + 1)

\* ------------------------------------------------------------------------
\* The critical sections as functions of the store.
\* ------------------------------------------------------------------------
\* variant: off by one, a full window takes one more trade
window_has_room_off_by_one(entry) == entry.trade_count <= TRADE_BUFFER_SIZE

\* line 320: the window can take one more trade
window_has_room(entry) == entry.trade_count < TRADE_BUFFER_SIZE

\* variant: storing a trade resets the entry's best peer
append_trade_clearing_best_peer(entry, now, price, vol, current) ==
    [entry EXCEPT !.trades[entry.trade_count] =
                      [timestamp |-> now, price |-> price, volume |-> vol,
                       delay |-> current - now],
                  !.trade_count = entry.trade_count + 1,
                  !.max_corr = DInt(-2),
                  !.max_corr_symbol = NA]

\* lines 321-331
append_trade(entry, now, price, vol, current) ==
    [entry EXCEPT !.trades[entry.trade_count] =
                      [timestamp |-> now, price |-> price, volume |-> vol,
                       delay |-> current - now],
                  !.trade_count = entry.trade_count + 1]

\* lines 319-331 of save_trade: look the instrument up (or create it) and
\* append the trade if there is an entry with room
save_trade_store(tab, num, inst, now, price, vol, current) ==
    LET g == get_instrument(tab, num, inst)
        accepted == g.entry # NULL /\ window_has_room(g.instruments[g.entry])
    IN  [entry |-> g.entry,
         accepted |-> accepted,
         num_instruments |-> g.num_instruments,
         instruments |->
            IF accepted
            THEN [g.instruments EXCEPT ![g.entry] =
                     append_trade(g.instruments[g.entry], now, price, vol,
                                  current)]
            ELSE g.instruments]

RECURSIVE correlate_all(_, _, _, _)
\* the effect of the threads of one cycle (lines 466-478): thread i writes
\* its result into instruments[data[i].global_index]; the threads write
\* different entries, so their order does not matter
correlate_all(tab, data, now, i) ==
    LET total == Cardinality(DOMAIN data)
    IN  IF i >= total THEN tab
        ELSE correlate_all(
                [tab EXCEPT ![data[i].global_index] =
                    write_back(tab[data[i].global_index],
                               corr_loop(data, i, total, 0, corr_locals_init),
                               now)],
                data, now, i + 1)

\* one whole iteration of per_minute_worker's loop at time now (lines 429-480)
cycle_store(tab, num, now) ==
    LET tab2 == aggregate_all(tab, num, now, 0)
        data == build_corr_array(tab2, num, 0, << >>)
    IN  IF Cardinality(DOMAIN data) > 1 THEN correlate_all(tab2, data, now, 0)
        ELSE tab2

\* ------------------------------------------------------------------------
\* Initial states.  Besides the state after construction, the model starts
\* from states the program reaches by a scripted prefix of its run: trade
\* events handled one at a time and whole scheduler cycles, each computed
\* by the functions above.  A prefix leaves main in its service loop,
\* per_minute_worker at the head of its loop and no correlation thread
\* running.
\* ------------------------------------------------------------------------
Trade(inst, price, vol, at) ==
    [kind |-> "trade", inst |-> inst, price |-> price, vol |-> vol, at |-> at]
Cycle(at) ==
    [kind |-> "cycle", inst |-> EmptyStr, price |-> 0, vol |-> 0, at |-> at]

RECURSIVE replay(_, _, _)
\* the store after steps k.. of the script, from the store st
replay(script, k, st) ==
    IF k > Len(script) THEN st
    ELSE LET e == script[k]
         IN  IF e.kind = "trade"
             THEN LET r == save_trade_store(st.instruments, st.num_instruments,
                                            e.inst, e.at, e.price, e.vol, e.at)
                  IN  replay(script, k + 1,
                             [instruments |-> r.instruments,
                              num_instruments |-> r.num_instruments,
                              clock |-> e.at, now |-> st.now])
             ELSE replay(script, k + 1,
                         [instruments |-> cycle_store(st.instruments,
                                              st.num_instruments, e.at),
                          num_instruments |-> st.num_instruments,
                          clock |-> e.at, now |-> e.at])

\* the store after construction; now = -1: line 422 has not run yet
Constructed ==
    [instruments |-> [i \in 0..(MAX_INSTRUMENTS - 1) |-> ZeroInstrument],
     num_instruments |-> 0, clock |-> 0, now |-> -1]

\* Nothing has happened yet.
ScriptStart == << >>

\* One instrument holds two trades, a second one has the identifier of
\* NAME_MAX + 1 characters; no cycle has run.
ScriptTable ==
    << Trade(IdA, 1, 1, 0), Trade(IdA, 2, 1, 0), Trade(LongId, 1, 1, 0) >>

\* Two instruments with full histories after the cycles at 0, MINUTE and
\* 2 * MINUTE; the last cycle found correlation -1 between them.
ScriptCorr ==
    << Trade(IdA, 1, 1, 0), Trade(IdB, 2, 1, 0), Cycle(0),
       Trade(IdA, 2, 1, 1), Trade(IdB, 1, 1, MINUTE), Cycle(MINUTE),
       Cycle(2 * MINUTE) >>

\* One instrument is a cycle short of a full history, a second one has
\* just been created.
ScriptOne ==
    << Trade(IdA, 1, 1, 0), Cycle(0), Cycle(MINUTE), Trade(IdB, 1, 1, MINUTE) >>

\* Two instruments were created before the first cycle and a third one
\* two cycles later; the first two have been correlated twice, the third is
\* a cycle short of a full history.
ScriptLate ==
    << Trade(IdA, 1, 1, 0), Trade(IdC, 2, 1, 0), Cycle(0), Cycle(MINUTE),
       Trade(IdB, 1, 1, MINUTE + 1), Cycle(2 * MINUTE), Cycle(3 * MINUTE) >>

\* Two trades with the identifier of NAME_MAX + 1 characters, then three
\* cycles: each trade has its own entry, both histories are full and
\* constant, and the trades are about to leave the window.
ScriptTwins ==
    << Trade(LongId, 1, 1, 0), Trade(LongId, 2, 1, 0), Cycle(MINUTE),
       Cycle(2 * MINUTE), Cycle(3 * MINUTE) >>

\* the prefixes the model starts from, each with the number of trade
\* events and of clock ticks that follow it
Scenarios ==
    { [script |-> ScriptStart, trades |-> MaxTrades - 1, ticks |-> MaxTicks],
      [script |-> ScriptTable, trades |-> MaxTrades, ticks |-> MaxTicks - 3],
      [script |-> ScriptCorr, trades |-> MaxTrades - 1, ticks |-> MaxTicks],
      [script |-> ScriptOne, trades |-> MaxTrades - 2, ticks |-> MaxTicks - 2],
      [script |-> ScriptLate, trades |-> MaxTrades - 2, ticks |-> MaxTicks - 2],
      [script |-> ScriptTwins, trades |-> MaxTrades - 2, ticks |-> MaxTicks - 2] }

\* ------------------------------------------------------------------------
\* State.
\* ------------------------------------------------------------------------
\* thread identities; FREE is the unlocked mutex
FREE == <<"free">>
MAIN == <<"main">>
MINUTE_THREAD == <<"per_minute_worker">>
CORR_THREAD(i) == <<"compute_corr_thread", i>>

Workers == 0..(MAX_INSTRUMENTS - 1)

VARIABLES
    clock,            \* CLOCK_REALTIME, in ticks
    instruments,      \* static moving_avg_t instruments[MAX_INSTRUMENTS]
    num_instruments,  \* static int num_instruments
    destroy_flag,     \* static int destroy_flag
    ma_mutex,         \* the owner of ma_mutex, or FREE
    m_pc,             \* main thread: where it is in the service loop/save_trade
    m_local,          \* save_trade's locals: inst, price, vol, now, entry
    trades_left,      \* trade events the transport will still deliver
    ticks_left,       \* clock ticks still to come
    s_pc,             \* per_minute_worker: where it is
    s_local,          \* its locals: actual_start, time_diff, next_minute, now
    s_eintr,          \* a signal handler ran on per_minute_worker during its sleep
    corr_array,       \* the malloc'ed snapshot: [allocated, data]
    w_pc,             \* compute_corr_thread i: where it is
    w_local,          \* its argument and locals (see NoThread)
    fault,            \* the first undefined behaviour executed, or "none"
    crashed           \* the process was killed by a fault

vars == <<clock, instruments, num_instruments, destroy_flag, ma_mutex, m_pc,
          m_local, trades_left, ticks_left, s_pc, s_local, s_eintr,
          corr_array, w_pc, w_local, fault, crashed>>

store == <<instruments, num_instruments>>
main_vars == <<m_pc, m_local, trades_left>>
sched_vars == <<s_pc, s_local, s_eintr, corr_array>>
worker_vars == <<w_pc, w_local>>

NoTrade ==
    [inst |-> EmptyStr, price |-> 0, vol |-> 0, now |-> 0, entry |-> NULL,
     logged |-> << >>]
\* now = -1: the clock has not been read at line 422 yet
NoCycle == [actual_start |-> 0, time_diff |-> 0, next_minute |-> 0, now |-> -1]
\* a malloc'ed corr_array, and one that has been freed
Freed == [allocated |-> FALSE, data |-> << >>]

Init ==
    \E sc \in Scenarios :
    LET st == replay(sc.script, 1, Constructed)
    IN
    /\ clock = st.clock
    /\ instruments = st.instruments
    /\ num_instruments = st.num_instruments
    /\ s_local = [NoCycle EXCEPT !.now = st.now]
    /\ trades_left = sc.trades
    /\ ticks_left = sc.ticks
    /\ destroy_flag = FALSE
    /\ ma_mutex = FREE
    /\ m_pc = "service"
    /\ m_local = NoTrade
    /\ s_pc = "head"
    /\ s_eintr = FALSE
    /\ corr_array = Freed
    /\ w_pc = [i \in Workers |-> "none"]
    /\ w_local = [i \in Workers |-> NoThread]
    /\ fault = "none"
    /\ crashed = FALSE

\* the first undefined behaviour is the one recorded
record_fault(f) == IF fault = "none" THEN f ELSE fault

\* ------------------------------------------------------------------------
\* The clock and the signal.
\* ------------------------------------------------------------------------
\* The clock advances.  A tick is far longer than the wake-up latency of
\* nanosleep: a sleeper that is due runs before the next tick.
Tick ==
    /\ ~crashed
    /\ ticks_left > 0
    /\ ~(s_pc = "sleep" /\ clock >= s_local.next_minute)
    /\ clock' = clock + 1
    /\ ticks_left' = ticks_left - 1
    /\ UNCHANGED <<store, destroy_flag, ma_mutex, main_vars, sched_vars,
                   worker_vars, fault, crashed>>

\* SIGINT (src/okx.c:80-82).  The handler runs on some thread of the
\* process; when that is per_minute_worker in nanosleep, the sleep ends
\* early (EINTR).
INT_HANDLER ==
    /\ ~crashed
    /\ ~destroy_flag
    /\ destroy_flag' = TRUE
    /\ s_eintr' \in (IF s_pc = "sleep" THEN {TRUE, FALSE} ELSE {s_eintr})
    /\ UNCHANGED <<clock, ticks_left, store, ma_mutex, main_vars, s_pc, s_local,
                   corr_array, worker_vars, fault, crashed>>

\* ------------------------------------------------------------------------
\* save_trade (src/okx.c:286-350), one element of the "data" array per
\* pass, called from the service loop of main (src/okx.c:663-679).
\* ------------------------------------------------------------------------
\* lines 301-316: the fields of the event and the receipt time
save_trade_begin ==
    /\ ~crashed
    /\ m_pc = "service"
    /\ trades_left > 0
    /\ \E inst \in Ids, price \in Prices, vol \in Volumes :
          m_local' = [inst |-> inst, price |-> price, vol |-> vol,
                      now |-> clock, entry |-> NULL, logged |-> << >>]
    /\ m_pc' = "lock"
    /\ trades_left' = trades_left - 1
    /\ UNCHANGED <<clock, ticks_left, store, destroy_flag, ma_mutex, sched_vars,
                   worker_vars, fault, crashed>>

\* line 318
save_trade_lock ==
    /\ ~crashed
    /\ m_pc = "lock"
    /\ ma_mutex = FREE
    /\ ma_mutex' = MAIN
    /\ m_pc' = "critical"
    /\ UNCHANGED <<clock, ticks_left, store, destroy_flag, m_local, trades_left, sched_vars,
                   worker_vars, fault, crashed>>

\* lines 340-341: the delay the transactions record carries, read from
\* trades[trade_count] after the increment of line 331.  One past the end
\* of the array when the window has just become full: the bytes after
\* trades[], whatever double they make.
logged_delays(entry) ==
    IF entry.trade_count < TRADE_BUFFER_SIZE
    THEN {entry.trades[entry.trade_count].delay}
    ELSE GarbageDelays

\* lines 319-345, under the lock.  The fprintf of line 341 reads
\* trades[trade_count] after the increment: one past the end of the array
\* when the window has just become full.  logged: the records this call
\* writes to the instrument's transactions file (the file is open).
save_trade_critical ==
    /\ ~crashed
    /\ m_pc = "critical"
    /\ LET r == save_trade_store(instruments, num_instruments, m_local.inst,
                                 m_local.now, m_local.price, m_local.vol, clock)
       IN  /\ instruments' = r.instruments
           /\ num_instruments' = r.num_instruments
           /\ \E d \in (IF r.accepted
                         THEN logged_delays(r.instruments[r.entry])
                         ELSE {0}) :
                 m_local' = [m_local EXCEPT
                     !.entry = r.entry,
                     !.logged = IF r.accepted
                                THEN << [timestamp |-> m_local.now,
                                         price |-> m_local.price,
                                         volume |-> m_local.vol,
                                         delay |-> d] >>
                                ELSE << >>]
           /\ fault' = IF r.accepted
                          /\ r.instruments[r.entry].trade_count
                                >= TRADE_BUFFER_SIZE
                       THEN record_fault("oob_read")
                       ELSE fault
    /\ ma_mutex' = FREE
    /\ m_pc' = "print"
    /\ UNCHANGED <<clock, ticks_left, destroy_flag, trades_left, sched_vars, worker_vars,
                   crashed>>

\* line 346, after the unlock: printf reads
\* entry->trades[entry->trade_count].delay.  With entry == NULL the load is
\* from an address near 0: the process is killed, or (were the page mapped)
\* a garbage value is printed.  With trade_count == TRADE_BUFFER_SIZE the
\* load is past the end of trades[].
save_trade_print ==
    /\ ~crashed
    /\ m_pc = "print"
    /\ IF m_local.entry = NULL
       THEN /\ fault' = record_fault("null_deref")
            /\ crashed' \in {TRUE, FALSE}
       ELSE /\ fault' = IF instruments[m_local.entry].trade_count
                            >= TRADE_BUFFER_SIZE
                        THEN record_fault("oob_read")
                        ELSE fault
            /\ crashed' = crashed
    /\ m_pc' = "service"
    /\ m_local' = NoTrade
    /\ UNCHANGED <<clock, ticks_left, store, destroy_flag, ma_mutex, trades_left, sched_vars,
                   worker_vars>>

\* main leaves its loop (line 663) once destroy_flag is set
main_exit ==
    /\ ~crashed
    /\ m_pc = "service"
    /\ destroy_flag
    /\ m_pc' = "closed"
    /\ UNCHANGED <<clock, ticks_left, store, destroy_flag, ma_mutex, m_local, trades_left,
                   sched_vars, worker_vars, fault, crashed>>

\* ------------------------------------------------------------------------
\* per_minute_worker (src/okx.c:388-483).
\* ------------------------------------------------------------------------
\* floor(t / 60.0) * 60.0 and ceil(t / 60.0) * 60.0 (lines 395, 411)
\* for t and a period m in the same unit
floor_multiple(t, m) == (t \div m) * m
ceil_multiple(t, m) == ((t + m - 1) \div m) * m

floor_minute(t) == floor_multiple(t, MINUTE)

\* variant: the target is the minute boundary before the time captured
ceil_minute_no_wait(t) == floor_multiple(t, MINUTE)

\* variant: the target is a fixed minute after the time captured
ceil_minute_fixed_sleep(t) == t + MINUTE

ceil_minute(t) == ceil_multiple(t, MINUTE)

\* line 390 with destroy_flag set: the loop ends
per_minute_worker_exit ==
    /\ ~crashed
    /\ s_pc = "head"
    /\ destroy_flag
    /\ s_pc' = "exit"
    /\ UNCHANGED <<clock, ticks_left, store, destroy_flag, ma_mutex, main_vars, s_local,
                   s_eintr, corr_array, worker_vars, fault, crashed>>

\* lines 390-417: the time capture, the timing record and the sleep target.
\* CLOCK_REALTIME has advanced since this thread read it at line 422 of the
\* previous iteration (a critical section with file writes lies between).
per_minute_worker_head ==
    /\ ~crashed
    /\ s_pc = "head"
    /\ ~destroy_flag
    /\ clock > s_local.now
    /\ s_local' = [actual_start |-> clock,
                   time_diff |-> clock - floor_minute(clock),
                   next_minute |-> ceil_minute(clock),
                   now |-> s_local.now]
    /\ s_pc' = "sleep"
    /\ UNCHANGED <<clock, ticks_left, store, destroy_flag, ma_mutex, main_vars, s_eintr,
                   corr_array, worker_vars, fault, crashed>>

\* line 418: nanosleep returns when the duration has passed or a signal
\* handler has run on this thread
sleep_over == clock >= s_local.next_minute \/ s_eintr

\* lines 418-427: the end of the sleep and the capture of now; actual_start,
\* time_diff and next_minute are not read again before line 393 resets them
per_minute_worker_wake ==
    /\ ~crashed
    /\ s_pc = "sleep"
    /\ sleep_over
    /\ s_local' = [NoCycle EXCEPT !.now = clock]
    /\ s_eintr' = FALSE
    /\ s_pc' = "lock"
    /\ UNCHANGED <<clock, ticks_left, store, destroy_flag, ma_mutex, main_vars,
                   corr_array, worker_vars, fault, crashed>>

\* line 429
per_minute_worker_lock ==
    /\ ~crashed
    /\ s_pc = "lock"
    /\ ma_mutex = FREE
    /\ ma_mutex' = MINUTE_THREAD
    /\ s_pc' = "aggregate"
    /\ UNCHANGED <<clock, ticks_left, store, destroy_flag, main_vars, s_local, s_eintr,
                   corr_array, worker_vars, fault, crashed>>

\* lines 430-463, under the lock: trim and aggregate every instrument, push
\* the records, copy the snapshot, unlock
per_minute_worker_aggregate ==
    /\ ~crashed
    /\ s_pc = "aggregate"
    /\ LET tab == aggregate_all(instruments, num_instruments, s_local.now, 0)
       IN  /\ instruments' = tab
           /\ corr_array' =
                 [allocated |-> TRUE,
                  data |-> build_corr_array(tab, num_instruments, 0, << >>)]
    /\ ma_mutex' = FREE
    /\ s_pc' = "spawn"
    /\ UNCHANGED <<clock, ticks_left, num_instruments, destroy_flag, main_vars, s_local,
                   s_eintr, worker_vars, fault, crashed>>

valid_count == Cardinality(DOMAIN corr_array.data)

\* variant: a single snapshot entry starts the correlation too
runs_correlation_any(n) == n > 0

\* line 466: the cycle computes correlations
runs_correlation(n) == n > 1

\* lines 466-475: one thread per snapshot entry
per_minute_worker_spawn ==
    /\ ~crashed
    /\ s_pc = "spawn"
    /\ runs_correlation(valid_count)
    /\ w_pc' = [i \in Workers |-> IF i < valid_count THEN "compute" ELSE w_pc[i]]
    /\ w_local' = [i \in Workers |->
                     IF i < valid_count
                     THEN [NoThread EXCEPT !.total = valid_count,
                                           !.current_time = s_local.now]
                     ELSE w_local[i]]
    /\ s_pc' = "join"
    /\ UNCHANGED <<clock, ticks_left, store, destroy_flag, ma_mutex, main_vars, s_local,
                   s_eintr, corr_array, fault, crashed>>

\* lines 466, 480: no correlation this cycle; free the snapshot
per_minute_worker_skip ==
    /\ ~crashed
    /\ s_pc = "spawn"
    /\ ~runs_correlation(valid_count)
    /\ corr_array' = Freed
    /\ s_pc' = "head"
    /\ UNCHANGED <<clock, ticks_left, store, destroy_flag, ma_mutex, main_vars, s_local,
                   s_eintr, worker_vars, fault, crashed>>

\* variant: only threads[0] is joined
all_joined_first_only(pcs, total) == total > 0 => pcs[0] = "done"

\* lines 476-478: pthread_join has returned for every thread of the cycle
all_joined(pcs, total) == \A i \in Workers : i < total => pcs[i] = "done"

\* lines 476-480: the joins, then free(corr_array)
per_minute_worker_join ==
    /\ ~crashed
    /\ s_pc = "join"
    /\ all_joined(w_pc, valid_count)
    /\ w_pc' = [i \in Workers |-> IF w_pc[i] = "done" THEN "none" ELSE w_pc[i]]
    /\ corr_array' = Freed
    /\ s_pc' = "head"
    /\ UNCHANGED <<clock, ticks_left, store, destroy_flag, ma_mutex, main_vars, s_local,
                   s_eintr, w_local, fault, crashed>>

\* ------------------------------------------------------------------------
\* compute_corr_thread (src/okx.c:194-282), thread i of the cycle.
\* ------------------------------------------------------------------------
\* lines 195-250, without the lock, reading the snapshot.  Reading it after
\* free(corr_array) is undefined: the thread then computes from whatever
\* the memory holds, modelled as finding no peer.
compute_corr_thread_compute(i) ==
    /\ ~crashed
    /\ w_pc[i] = "compute"
    /\ IF corr_array.allocated /\ i \in DOMAIN corr_array.data
       THEN /\ w_local' = [w_local EXCEPT
                  ![i].st = corr_loop(corr_array.data, i, w_local[i].total, 0,
                                      corr_locals_init),
                  ![i].global_idx = corr_array.data[i].global_index]
            /\ fault' = fault
       ELSE /\ w_local' = [w_local EXCEPT ![i].global_idx = 0]
            /\ fault' = record_fault("use_after_free")
    /\ w_pc' = [w_pc EXCEPT ![i] = "lock"]
    /\ UNCHANGED <<clock, ticks_left, store, destroy_flag, ma_mutex, main_vars,
                   sched_vars, crashed>>

\* line 251
compute_corr_thread_lock(i) ==
    /\ ~crashed
    /\ w_pc[i] = "lock"
    /\ ma_mutex = FREE
    /\ ma_mutex' = CORR_THREAD(i)
    /\ w_pc' = [w_pc EXCEPT ![i] = "write"]
    /\ UNCHANGED <<clock, ticks_left, store, destroy_flag, main_vars, sched_vars,
                   w_local, fault, crashed>>

\* lines 253-281, under the lock: the write-back, the unlock, the end of
\* the thread
compute_corr_thread_write(i) ==
    /\ ~crashed
    /\ w_pc[i] = "write"
    /\ instruments' = [instruments EXCEPT ![w_local[i].global_idx] =
          write_back(instruments[w_local[i].global_idx], w_local[i].st,
                     w_local[i].current_time)]
    /\ ma_mutex' = FREE
    /\ w_local' = [w_local EXCEPT ![i] = NoThread]
    /\ w_pc' = [w_pc EXCEPT ![i] = "done"]
    /\ UNCHANGED <<clock, ticks_left, num_instruments, destroy_flag, main_vars,
                   sched_vars, fault, crashed>>

\* ------------------------------------------------------------------------
\* The specification.
\* ------------------------------------------------------------------------
Next ==
    \/ Tick
    \/ INT_HANDLER
    \/ save_trade_begin
    \/ save_trade_lock
    \/ save_trade_critical
    \/ save_trade_print
    \/ main_exit
    \/ per_minute_worker_exit
    \/ per_minute_worker_head
    \/ per_minute_worker_wake
    \/ per_minute_worker_lock
    \/ per_minute_worker_aggregate
    \/ per_minute_worker_spawn
    \/ per_minute_worker_skip
    \/ per_minute_worker_join
    \/ \E i \in Workers : compute_corr_thread_compute(i)
    \/ \E i \in Workers : compute_corr_thread_lock(i)
    \/ \E i \in Workers : compute_corr_thread_write(i)

Spec == Init /\ [][Next]_vars

\* ========================================================================
\* Properties.
\* ========================================================================
Live == 0..(num_instruments - 1)

\* the steps that run a critical section to its unlock
CriticalStep == m_pc = "critical" /\ m_pc' = "print"
AggregateStep == s_pc = "aggregate" /\ s_pc' = "spawn"
WriteStep(i) == w_pc[i] = "write" /\ w_pc'[i] = "done"

\* the trade window of an entry, oldest first
window_seq(e) == [k \in 1..e.trade_count |-> e.trades[k - 1]]

\* the bestPeer of an entry
best_peer(e) ==
    <<e.max_corr_symbol, e.max_corr, e.max_corr_time, e.max_corr_ma_time>>

\* ------------------------------------------------------------------------
\* C1.  Every thread whose next step reads or writes trades/trade_count,
\* ma_history/ma_count or the max_corr* fields of an instrument holds
\* ma_mutex.  The steps that touch these fields: lines 319-344 of save_trade
\* and line 346 (when entry is an instrument), lines 430-462 of
\* per_minute_worker, lines 253-277 of compute_corr_thread.
\* ------------------------------------------------------------------------
C1_LockHeldOnAccess ==
    /\ m_pc = "critical" => ma_mutex = MAIN
    /\ (m_pc = "print" /\ m_local.entry # NULL) => ma_mutex = MAIN
    /\ s_pc = "aggregate" => ma_mutex = MINUTE_THREAD
    /\ \A i \in Workers : w_pc[i] = "write" => ma_mutex = CORR_THREAD(i)

\* ------------------------------------------------------------------------
\* C2.  An aggregation at time now leaves in each trade window exactly the
\* trades it held with timestamp >= now - FIFTEEN_MINUTES, in order; the
\* record it pushes has the mean of their prices (0 when none is left) and
\* the sum of their volumes.  The trades at 0 s, 30 s, 60 s (ticks 0, 1, 2)
\* with prices 100, 102, 101 and volumes 1, 2, 1 give 101 and 4 at 60 s.
\* ------------------------------------------------------------------------
C2_Kept(e, now) ==
    LET keep(t) == t.timestamp >= now - FIFTEEN_MINUTES
    IN  SelectSeq(window_seq(e), keep)

RECURSIVE C2_Sum(_, _)
C2_Sum(seq, field) ==
    IF seq = << >> THEN 0 ELSE Head(seq)[field] + C2_Sum(Tail(seq), field)

C2_Example ==
    LET e == [ZeroInstrument EXCEPT
                 !.trades = [k \in 0..(TRADE_BUFFER_SIZE - 1) |->
                     IF k = 0 THEN [timestamp |-> 0, price |-> 100,
                                    volume |-> 1, delay |-> 0]
                     ELSE IF k = 1 THEN [timestamp |-> 1, price |-> 102,
                                         volume |-> 2, delay |-> 0]
                     ELSE IF k = 2 THEN [timestamp |-> 2, price |-> 101,
                                         volume |-> 1, delay |-> 0]
                     ELSE ZeroTrade],
                 !.trade_count = 3]
        r == compute_moving_avg_and_volume(e, 2)
    IN  /\ r.ma_out.moving_avg = RInt(101)
        /\ r.ma_out.total_volume = 4
        /\ r.entry.trade_count = 3

C2_WindowCorrect ==
    [][/\ C2_Example
       /\ AggregateStep =>
            \A i \in Live :
               LET kept == C2_Kept(instruments[i], s_local.now)
                   e2 == instruments'[i]
                   out == e2.ma_history[e2.ma_count - 1]
               IN  /\ window_seq(e2) = kept
                   /\ out.total_volume = C2_Sum(kept, "volume")
                   /\ out.moving_avg.n * Len(kept)
                         = C2_Sum(kept, "price") * out.moving_avg.d
                   /\ Len(kept) = 0 => out.moving_avg = RZero]_vars

\* an aggregation has just dropped some trades of a window and kept others:
\* the total volume of the newest record is positive and below that of the
\* record before it
C2_Witness ==
    /\ s_pc = "spawn"
    /\ \E i \in Live :
          LET e == instruments[i]
          IN  /\ e.ma_count >= 2
              /\ e.trade_count > 0
              /\ e.ma_history[e.ma_count - 1].total_volume > 0
              /\ e.ma_history[e.ma_count - 1].total_volume
                    < e.ma_history[e.ma_count - 2].total_volume

\* ------------------------------------------------------------------------
\* C3.  A trade for an instrument whose window holds TRADE_BUFFER_SIZE
\* trades leaves the store as it was, and every trade_count stays within
\* 0 .. TRADE_BUFFER_SIZE.
\* ------------------------------------------------------------------------
C3_CountInRange ==
    \A i \in 0..(MAX_INSTRUMENTS - 1) :
        instruments[i].trade_count \in 0..TRADE_BUFFER_SIZE

C3_DropOnOverflow ==
    [][/\ C3_CountInRange'
       /\ CriticalStep =>
            \A i \in Live :
               (/\ instruments[i].instrument = m_local.inst
                /\ instruments[i].trade_count = TRADE_BUFFER_SIZE)
               => /\ instruments' = instruments
                  /\ num_instruments' = num_instruments]_vars

\* save_trade has just left its critical section for a trade of an existing
\* instrument whose window is full and does not end with this trade
C3_Witness ==
    /\ m_pc = "print"
    /\ m_local.entry # NULL
    /\ LET e == instruments[m_local.entry]
       IN  /\ e.trade_count = TRADE_BUFFER_SIZE
           /\ e.trades[TRADE_BUFFER_SIZE - 1].price # m_local.price

\* ------------------------------------------------------------------------
\* C4.  The push of a cycle into a history of MA_HISTORY_SIZE records
\* leaves the former records 2.. followed by the new record; into a
\* shorter history it appends; ma_count never exceeds MA_HISTORY_SIZE.
\* ------------------------------------------------------------------------
C4_Step(e, e2, now) ==
    LET new == e2.ma_history[e2.ma_count - 1]
    IN  /\ new.timestamp = now
        /\ IF e.ma_count = MA_HISTORY_SIZE
           THEN /\ e2.ma_count = MA_HISTORY_SIZE
                /\ \A k \in 0..(MA_HISTORY_SIZE - 2) :
                      e2.ma_history[k] = e.ma_history[k + 1]
           ELSE /\ e2.ma_count = e.ma_count + 1
                /\ \A k \in 0..(e.ma_count - 1) :
                      e2.ma_history[k] = e.ma_history[k]

C4_HistoryEviction ==
    [][/\ \A i \in 0..(MAX_INSTRUMENTS - 1) :
             instruments'[i].ma_count \in 0..MA_HISTORY_SIZE
       /\ AggregateStep =>
            \A i \in Live :
               C4_Step(instruments[i], instruments'[i], s_local.now)]_vars

\* a cycle has just pushed into a history that was full: an earlier cycle
\* had correlated this instrument (which takes a full history) and the
\* newest record is of the present cycle
C4_Witness ==
    /\ s_pc = "spawn"
    /\ \E i \in Live :
          LET e == instruments[i]
          IN  /\ e.ma_count = MA_HISTORY_SIZE
              /\ e.ma_history[MA_HISTORY_SIZE - 1].timestamp = s_local.now
              /\ e.max_corr_time > 0
              /\ e.max_corr_time < s_local.now

\* ------------------------------------------------------------------------
\* C5 (as amended).  A thread that finds no finite correlation between its
\* instrument and any other instrument of the snapshot writes the bestPeer
\* ("N/A", -2.0, now of the cycle, 0), whatever the bestPeer was.
\* ------------------------------------------------------------------------
\* the correlations of snapshot entry i with the other entries
peer_corrs(data, i) ==
    { pearson_corr_vector(ma_vector(data[i]), ma_vector(data[j]),
                          MA_HISTORY_SIZE) : j \in (DOMAIN data) \ {i} }

no_finite_peer(i) ==
    /\ corr_array.allocated
    /\ i \in DOMAIN corr_array.data
    /\ \A c \in peer_corrs(corr_array.data, i) : isnan(c)

C6_Created ==
    num_instruments' > num_instruments =>
        instruments'[num_instruments].max_corr = DInt(-2)

C7_Barrier ==
    /\ \A i \in Workers :
          w_pc[i] \in {"compute", "lock", "write"} =>
             /\ s_pc = "join"
             /\ corr_array.allocated
             /\ i \in DOMAIN corr_array.data
    /\ s_pc # "join" => \A i \in Workers : w_pc[i] = "none"
    /\ fault # "use_after_free"

\* every thread of a cycle has written and ended; per_minute_worker is in
\* its joins
C7_Witness ==
    /\ s_pc = "join"
    /\ valid_count > 1
    /\ \A i \in DOMAIN corr_array.data :
          /\ w_pc[i] = "done"
          /\ instruments[corr_array.data[i].global_index].max_corr_time
                = s_local.now

\* ------------------------------------------------------------------------
\* C8.  num_instruments stays within 0 .. MAX_INSTRUMENTS and never
\* decreases, and an entry of the table keeps its identifier and index.
\* ------------------------------------------------------------------------
C8_TableStable ==
    [][/\ num_instruments \in 0..MAX_INSTRUMENTS
       /\ num_instruments' \in 0..MAX_INSTRUMENTS
       /\ num_instruments' >= num_instruments
       /\ \A i \in Live :
             instruments'[i].instrument = instruments[i].instrument]_vars

\* save_trade has just created the instrument that fills the table
C8_Witness ==
    /\ m_pc = "print"
    /\ num_instruments = MAX_INSTRUMENTS
    /\ m_local.entry = MAX_INSTRUMENTS - 1
    /\ instruments[MAX_INSTRUMENTS - 1].trade_count = 1
    /\ instruments[MAX_INSTRUMENTS - 1].ma_count = 0

\* ------------------------------------------------------------------------
\* C9.  A trade whose identifier is not in a full table gets no entry and
\* leaves the table, its count and every instrument as they were.
\* ------------------------------------------------------------------------
C9_RejectedLeavesStore ==
    [][(/\ CriticalStep
        /\ num_instruments = MAX_INSTRUMENTS
        /\ \A i \in Live : instruments[i].instrument # m_local.inst)
       => /\ instruments' = instruments
          /\ num_instruments' = num_instruments
          /\ m_local'.entry = NULL]_vars

\* save_trade has just left its critical section without an entry
C9_Witness ==
    /\ m_pc = "print"
    /\ m_local.entry = NULL
    /\ num_instruments = MAX_INSTRUMENTS
    /\ \A i \in Live : instruments[i].instrument # m_local.inst

\* ------------------------------------------------------------------------
\* C10.  As claimed: save_trade never dereferences a missing entry and
\* never reads trades[] at an index >= TRADE_BUFFER_SIZE, and the process
\* is not killed.
\* ------------------------------------------------------------------------
C10_NoFault == fault = "none" /\ ~crashed

\* ------------------------------------------------------------------------
\* C11.  As claimed: get_instrument creates at most one entry per
\* identifier, so the identifiers stored in the table are pairwise
\* distinct.
\* ------------------------------------------------------------------------
C11_IdsDistinct ==
    \A i, j \in Live :
        i # j => instruments[i].instrument # instruments[j].instrument

\* ------------------------------------------------------------------------
\* C12.  A cycle whose aggregation leaves fewer than two instruments with a
\* full history starts no correlation thread and leaves the bestPeer of
\* every instrument as it was: the aggregation itself writes no bestPeer,
\* and from the end of the aggregation per_minute_worker goes to the head
\* of its loop with no thread created.
\* ------------------------------------------------------------------------
full_count ==
    Cardinality({g \in Live : instruments[g].ma_count = MA_HISTORY_SIZE})

C12_SkipLeavesBestPeer ==
    [][/\ AggregateStep =>
             \A g \in Live :
                 best_peer(instruments'[g]) = best_peer(instruments[g])
       /\ (s_pc = "spawn" /\ full_count < 2) =>
             /\ s_pc' \in {"spawn", "head"}
             /\ \A i \in Workers : w_pc'[i] = "none"
             /\ \A g \in Live :
                   best_peer(instruments'[g]) = best_peer(instruments[g])
       /\ s_pc' = "join" => full_count >= 2]_vars

\* the aggregation has left exactly one instrument of two with a full
\* history
C12_Witness ==
    /\ s_pc = "spawn"
    /\ full_count = 1
    /\ num_instruments >= 2

\* ------------------------------------------------------------------------
\* The correlation round on its own.  Three instruments reach the
\* aggregation at 5 * MINUTE with full histories; the moving averages of
\* the histories after that aggregation are drawn from MaVectors.  Each
\* instrument gets them from three trades (the first falls out of its
\* window at 4 * MINUTE), whose prices are chosen to give these averages.
\* From there only per_minute_worker and its correlation threads run.
\* ------------------------------------------------------------------------
\* IdA's averages start at 0 (a correlation does not change when a constant
\* is added to a history); those of IdB and IdC take two values
MaValues == {0, 1, 2}
PeerValues == {1, 2}
MaVectors == {v \in [0..(MA_HISTORY_SIZE - 1) -> MaValues] : v[0] = 0}
PeerVectors == [0..(MA_HISTORY_SIZE - 1) -> PeerValues]

\* the trades of the three instruments at time at, with the given prices
TradesAt(at, pa, pb, pc) ==
    << Trade(IdA, pa, 1, at), Trade(IdB, pb, 1, at), Trade(IdC, pc, 1, at) >>

\* a, b, c: the moving averages at 3 * MINUTE, 4 * MINUTE, 5 * MINUTE of
\* IdA, IdB, IdC
ScriptRound(a, b, c) ==
    TradesAt(0, 2 * a[0] - a[1], 2 * b[0] - b[1], 2 * c[0] - c[1])
    \o << Cycle(0), Cycle(MINUTE), Cycle(2 * MINUTE) >>
    \o TradesAt(3 * MINUTE - 1, a[1], b[1], c[1])
    \o << Cycle(3 * MINUTE), Cycle(4 * MINUTE) >>
    \o TradesAt(5 * MINUTE - 1, 2 * a[2] - a[1], 2 * b[2] - b[1],
                2 * c[2] - c[1])

CorrInit ==
    \E a \in MaVectors, b, c \in PeerVectors :
    LET st == replay(ScriptRound(a, b, c), 1, Constructed)
    IN
    /\ clock = 5 * MINUTE
    /\ instruments = st.instruments
    /\ num_instruments = st.num_instruments
    /\ s_local = [NoCycle EXCEPT !.now = 5 * MINUTE]
    /\ trades_left = 0
    /\ ticks_left = 0
    /\ destroy_flag = FALSE
    /\ ma_mutex = FREE
    /\ m_pc = "service"
    /\ m_local = NoTrade
    /\ s_pc = "lock"
    /\ s_eintr = FALSE
    /\ corr_array = Freed
    /\ w_pc = [i \in Workers |-> "none"]
    /\ w_local = [i \in Workers |-> NoThread]
    /\ fault = "none"
    /\ crashed = FALSE

CorrNext ==
    \/ per_minute_worker_lock
    \/ per_minute_worker_aggregate
    \/ per_minute_worker_spawn
    \/ per_minute_worker_join
    \/ \E i \in Workers : compute_corr_thread_compute(i)
    \/ \E i \in Workers : compute_corr_thread_lock(i)
    \/ \E i \in Workers : compute_corr_thread_write(i)

CorrSpec == CorrInit /\ [][CorrNext]_vars

\* ------------------------------------------------------------------------
\* C13.  When several peers of the snapshot have the same largest finite
\* correlation with an instrument, its thread writes the identifier of the
\* one with the lowest snapshot index, however the threads interleave.
\* ------------------------------------------------------------------------
\* the correlations of snapshot entry i with its peers
peer_corr(i) ==
    [j \in (DOMAIN corr_array.data) \ {i} |->
        pearson_corr_vector(ma_vector(corr_array.data[i]),
                            ma_vector(corr_array.data[j]), MA_HISTORY_SIZE)]

\* the peers with a finite correlation, and those with the largest, in the
\* correlations c
finite_peers(c) == {j \in DOMAIN c : ~isnan(c[j])}
best_peers(c) ==
    {j \in finite_peers(c) : \A k \in finite_peers(c) : DGe(c[j], c[k])}
first_of(S) == CHOOSE j \in S : \A k \in S : j <= k

\* thread i has written and the snapshot is still there
written(i) ==
    /\ corr_array.allocated
    /\ i \in DOMAIN corr_array.data
    /\ w_pc[i] = "done"

C13_FirstMaximumWins ==
    \A i \in Workers :
        written(i) =>
            LET best == best_peers(peer_corr(i))
            IN  best # {} =>
                  instruments[corr_array.data[i].global_index].max_corr_symbol
                     = corr_array.data[first_of(best)].instrument

\* a thread has written the first of two peers with the same largest
\* correlation
C13_Witness ==
    \E i \in Workers :
        /\ written(i)
        /\ LET best == best_peers(peer_corr(i))
           IN  /\ Cardinality(best) >= 2
               /\ instruments[corr_array.data[i].global_index].max_corr_symbol
                     = corr_array.data[first_of(best)].instrument

\* ------------------------------------------------------------------------
\* C14.  At the head of every cycle, with t0 the time captured, the drift
\* recorded is t0 - floor(t0/60)*60, which lies in [0, 60), and the sleep
\* target is ceil(t0/60)*60: the least multiple of a minute that is >= t0,
\* less than a minute away.  Every cycle's target is a minute boundary,
\* also after a cycle that started late.  In tenths of a second, t0 = 61.2 s
\* gives the drift 1.2 s and the target 120 s.
\* ------------------------------------------------------------------------
HeadStep == s_pc = "head" /\ s_pc' = "sleep"

C14_Example ==
    /\ 612 - floor_multiple(612, 600) = 12
    /\ ceil_multiple(612, 600) = 1200

C14_DriftCorrection ==
    [][/\ C14_Example
       /\ HeadStep =>
             LET t0 == clock
                 drift == s_local'.time_diff
                 target == s_local'.next_minute
             IN  /\ s_local'.actual_start = t0
                 /\ drift = t0 % MINUTE
                 /\ 0 <= drift /\ drift < MINUTE
                 /\ target % MINUTE = 0
                 /\ 0 <= target - t0 /\ target - t0 < MINUTE
       /\ s_pc' = "sleep" => s_local'.next_minute % MINUTE = 0]_vars

\* a cycle that follows another one has started late and sleeps to the
\* next minute boundary
C14_Witness ==
    /\ s_pc = "sleep"
    /\ s_local.now >= 0
    /\ s_local.time_diff > 0
    /\ s_local.next_minute = s_local.actual_start - s_local.time_diff + MINUTE

\* ------------------------------------------------------------------------
\* C15.  An aggregation pushes one record, stamped with the cycle's now,
\* into the history of every instrument of the table and changes the
\* histories in no other way; the sleep target of a cycle is later than
\* the time of the cycle before it, and a cycle that ran before its target
\* is the last one; the timestamps of every history increase strictly from
\* oldest to newest.
\* ------------------------------------------------------------------------
history_seq(e) == [k \in 1..e.ma_count |-> e.ma_history[k - 1].timestamp]

WakeStep == s_pc = "sleep" /\ s_pc' = "lock"

C15_Increasing ==
    \A g \in Live :
        LET ts == history_seq(instruments[g])
        IN  \A k \in 1..(Len(ts) - 1) : ts[k] < ts[k + 1]

C15_OneRecordPerCycle ==
    [][/\ C15_Increasing
       /\ AggregateStep =>
             \A g \in Live :
                 LET e == instruments[g]
                     e2 == instruments'[g]
                 IN  /\ e2.ma_count = IF e.ma_count < MA_HISTORY_SIZE
                                      THEN e.ma_count + 1 ELSE MA_HISTORY_SIZE
                     /\ history_seq(e2) =
                           Append(IF e.ma_count < MA_HISTORY_SIZE
                                  THEN history_seq(e)
                                  ELSE Tail(history_seq(e)), s_local.now)
       /\ ~AggregateStep =>
             \A g \in Live :
                 history_seq(instruments'[g]) = history_seq(instruments[g])
       /\ HeadStep => s_local'.next_minute > s_local.now
       /\ (WakeStep /\ clock < s_local.next_minute) => destroy_flag]_vars

\* the second aggregation in a row has pushed its record a minute after
\* the record before it
C15_Witness ==
    /\ s_pc = "spawn"
    /\ \E g \in Live :
          LET ts == history_seq(instruments[g])
          IN  /\ Len(ts) >= 2
              /\ ts[Len(ts)] = s_local.now
              /\ ts[Len(ts) - 1] = s_local.now - MINUTE

\* ------------------------------------------------------------------------
\* C16.  As claimed (the part a finite run decides): a sleep of
\* per_minute_worker ends at its target or later, so no aggregation runs
\* before the target; a cycle starts only with destroy_flag clear; the loop
\* is left only from its head, with every thread of the last round joined
\* and the snapshot freed.
\* ------------------------------------------------------------------------
C16_SleepRunsToTarget ==
    [][/\ WakeStep => clock >= s_local.next_minute
       /\ HeadStep => ~destroy_flag
       /\ s_pc' = "exit" =>
             /\ s_pc \in {"head", "exit"}
             /\ destroy_flag
             /\ ~corr_array.allocated
             /\ \A i \in Workers : w_pc[i] = "none"]_vars

\* ------------------------------------------------------------------------
\* C17.  pearson_corr_vector gives exactly 1 for a vector with variance and
\* itself and exactly -1 for such a vector and its mirror image c - v (so
\* for 1..8 with 1..8, and for 1..8 with 8..1); for any two vectors with
\* variance the result r is a number with -1 <= r <= 1,
\* r * r * den1 * den2 = num * num and the sign of num.  The vectors are
\* the histories of each snapshot, looked at when it has just been taken.
\* ------------------------------------------------------------------------
RECURSIVE C17_Sum(_, _, _)
C17_Sum(f, n, k) == IF k >= n THEN RZero ELSE RAdd(f[k], C17_Sum(f, n, k + 1))

\* sum of v[k] * w[k] minus (sum v)(sum w) / n: num for v, w; den1 for v, v
C17_Co(v, w, n) ==
    RSub(C17_Sum([k \in 0..(n - 1) |-> RMul(v[k], w[k])], n, 0),
         RDivInt(RMul(C17_Sum(v, n, 0), C17_Sum(w, n, 0)), n))

C17_Ramp == [k \in 0..7 |-> RInt(k + 1)]
C17_RampDown == [k \in 0..7 |-> RInt(8 - k)]

C17_Examples ==
    /\ pearson_corr_vector(C17_Ramp, C17_Ramp, 8) = DInt(1)
    /\ pearson_corr_vector(C17_Ramp, C17_RampDown, 8) = DInt(-1)

C17_Pair(v, w, n) ==
    LET num == C17_Co(v, w, n)
        den == RMul(C17_Co(v, v, n), C17_Co(w, w, n))
        r == pearson_corr_vector(v, w, n)
    IN  den # RZero =>
           /\ ~isnan(r)
           /\ DGe(r, DInt(-1)) /\ DGe(DInt(1), r)
           /\ r.s = Sign(num.n)
           /\ r.n * num.d * num.d * den.n = r.d * num.n * num.n * den.d

C17_PearsonExact ==
    /\ C17_Examples
    /\ (corr_array.allocated /\ s_pc = "spawn") =>
          \A i, j \in DOMAIN corr_array.data :
              LET v == ma_vector(corr_array.data[i])
                  w == ma_vector(corr_array.data[j])
                  mirror == [k \in DOMAIN v |-> RSub(RInt(3), v[k])]
                  n == MA_HISTORY_SIZE
              IN  /\ C17_Pair(v, w, n)
                  /\ C17_Co(v, v, n) # RZero =>
                        /\ pearson_corr_vector(v, v, n) = DInt(1)
                        /\ pearson_corr_vector(v, mirror, n) = DInt(-1)

\* a thread has found the correlation 1 with a peer whose history equals
\* its own, and another thread a correlation that is not rational
C17_Witness ==
    /\ corr_array.allocated
    /\ \E i, j \in DOMAIN corr_array.data :
          /\ i # j
          /\ ma_vector(corr_array.data[i]) = ma_vector(corr_array.data[j])
          /\ w_pc[i] = "lock"
          /\ w_local[i].st.max_corr = DInt(1)
    /\ \E i \in DOMAIN corr_array.data :
          /\ w_pc[i] = "lock"
          /\ w_local[i].st.max_corr.n = 3
          /\ w_local[i].st.max_corr.d = 4

\* ------------------------------------------------------------------------
\* C18.  pearson_corr_vector gives NaN when a vector has no variance (all
\* its values are equal) and when n < 2.  A peer whose correlation with an
\* instrument is NaN is never written as its max_corr_symbol, and what the
\* thread writes is what it would write for the snapshot without these
\* peers.
\* ------------------------------------------------------------------------
C18_Constant(v) == \A k, l \in DOMAIN v : v[k] = v[l]

\* the indices of snapshot entry i and of its peers with a correlation
\* that is not NaN, in snapshot order
C18_Kept(i) ==
    LET c == peer_corr(i)
        keep(j) == j = i \/ ~isnan(c[j])
    IN  SelectSeq([k \in 1..Cardinality(DOMAIN corr_array.data) |-> k - 1], keep)

\* the snapshot reduced to these entries, as a 0-based array
C18_Reduced(i) ==
    LET kept == C18_Kept(i)
    IN  [k \in 0..(Len(kept) - 1) |-> corr_array.data[kept[k + 1]]]

C18_Position(i) ==
    LET kept == C18_Kept(i)
    IN  (CHOOSE k \in 1..Len(kept) : kept[k] = i) - 1

C19_CriticalStep == m_pc = "critical" /\ m_pc' = "print"

C19_Accepted ==
    /\ m_local'.entry # NULL
    /\ LET e == m_local'.entry
           before == IF e < num_instruments THEN instruments[e].trade_count
                     ELSE 0
       IN  instruments'[e].trade_count = before + 1

C19_DelayOfAppended ==
    LET e == instruments'[m_local'.entry]
    IN  e.trades[e.trade_count - 1].delay

C19_RecordCarriesStoredDelay ==
    [][C19_CriticalStep =>
         IF C19_Accepted
         THEN /\ Len(m_local'.logged) = 1
              /\ m_local'.logged[1].delay = C19_DelayOfAppended
         ELSE m_local'.logged = << >>]_vars

\* the part of C19 the code does keep: one record per accepted trade, none
\* for a dropped one
C19_OneRecordPerAcceptedTrade ==
    [][C19_CriticalStep =>
         Len(m_local'.logged) = (IF C19_Accepted THEN 1 ELSE 0)]_vars

\* ------------------------------------------------------------------------
\* C20.  When a thread writes a finite best correlation for snapshot entry i
\* with winning peer j, the contributing time it writes is the timestamp, in
\* i's own snapshot history, of the position k that maximises
\* |(ma_i[k] - mean_i) * (ma_j[k] - mean_j)| for that peer j, the lowest
\* such k on ties, and not a position found for an earlier peer that j has
\* superseded.
\* ------------------------------------------------------------------------
C20_Positions == 0..(MA_HISTORY_SIZE - 1)

C20_Mean(v) ==
    RDivInt(C17_Sum(v, MA_HISTORY_SIZE, 0), MA_HISTORY_SIZE)

\* |(ma_i[k] - mean_i) * (ma_j[k] - mean_j)| at every position k
C20_Contrib(i, j) ==
    LET vi == ma_vector(corr_array.data[i])
        vj == ma_vector(corr_array.data[j])
        mi == C20_Mean(vi)
        mj == C20_Mean(vj)
    IN  [k \in C20_Positions |->
            RAbs(RMul(RSub(vi[k], mi), RSub(vj[k], mj)))]

\* the lowest position with the largest contribution
C20_Position(i, j) ==
    LET c == C20_Contrib(i, j)
    IN  first_of({k \in C20_Positions :
                     \A m \in C20_Positions : RGe(c[k], c[m])})

C20_ContributingTime ==
    \A i \in Workers :
        written(i) =>
            LET best == best_peers(peer_corr(i))
                entry == instruments[corr_array.data[i].global_index]
            IN  best # {} =>
                  /\ ~isnan(entry.max_corr)
                  /\ entry.max_corr_ma_time =
                        corr_array.data[i].ma[
                            C20_Position(i, first_of(best))].timestamp

\* a thread has written the time of the winner's position, after an earlier
\* peer with a smaller correlation and another position was superseded
C20_Witness ==
    \E i \in Workers :
        /\ written(i)
        /\ LET c == peer_corr(i)
               best == best_peers(c)
           IN  /\ best # {}
               /\ \E j \in finite_peers(c) :
                     /\ j < first_of(best)
                     /\ C20_Position(i, j) # C20_Position(i, first_of(best))
                     /\ corr_array.data[i].ma[C20_Position(i, j)].timestamp
                           # corr_array.data[i].ma[
                                 C20_Position(i, first_of(best))].timestamp
               /\ instruments[corr_array.data[i].global_index].max_corr_ma_time
                     = corr_array.data[i].ma[
                           C20_Position(i, first_of(best))].timestamp

\* ------------------------------------------------------------------------
\* C21.  The snapshot a cycle builds holds exactly the instruments whose
\* history is full after that cycle's push, in ascending table order, each
\* with a copy of its identifier, its table index and its history as they
\* are while the lock is held.  Trades stored and instruments created after
\* the unlock do not change the snapshot, and what each thread of the cycle
\* writes is a function of the snapshot and of the cycle's time only.
\* ------------------------------------------------------------------------
\* the snapshot of the table tab with num entries
C21_Full(tab, num) ==
    {g \in 0..(num - 1) : tab[g].ma_count = MA_HISTORY_SIZE}

C21_Snapshot(tab, num) ==
    LET full == C21_Full(tab, num)
        at(k) == CHOOSE g \in full : Cardinality({h \in full : h < g}) = k
    IN  [k \in 0..(Cardinality(full) - 1) |->
            [global_index |-> at(k),
             instrument |-> tab[at(k)].instrument,
             ma |-> tab[at(k)].ma_history]]

\* what thread i writes, from the snapshot and the time now
C21_Result(i, now) ==
    LET c == peer_corr(i)
        best == best_peers(c)
    IN  IF best = {} THEN << NA, DInt(-2), now, 0 >>
        ELSE LET j == first_of(best)
             IN  << corr_array.data[j].instrument, c[j], now,
                    corr_array.data[i].ma[C20_Position(i, j)].timestamp >>

C21_SnapshotIsolated ==
    [][/\ AggregateStep =>
             /\ corr_array'.allocated
             /\ corr_array'.data = C21_Snapshot(instruments', num_instruments')
       /\ (corr_array.allocated /\ corr_array'.allocated) =>
             corr_array' = corr_array
       /\ \A i \in Workers :
             WriteStep(i) =>
                /\ corr_array.allocated /\ i \in DOMAIN corr_array.data
                /\ best_peer(instruments'[corr_array.data[i].global_index])
                      = C21_Result(i, s_local.now)]_vars

\* a thread has written its result from the snapshot while the table holds
\* an instrument created after the snapshot was taken (no cycle has pushed
\* a record for it)
C21_Witness ==
    /\ corr_array.allocated
    /\ \E g \in Live : instruments[g].ma_count = 0
    /\ \E i \in Workers :
          /\ written(i)
          /\ best_peer(instruments[corr_array.data[i].global_index])
                = C21_Result(i, s_local.now)

\* ------------------------------------------------------------------------
\* C22.  Field ownership.  A save_trade call changes only the trade window
\* of its instrument (and creates the entry of a new identifier), never
\* the history or the best peer of an instrument of the table.  A history
\* changes only in per_minute_worker's aggregation.  In a cycle that runs
\* the correlation, the best peer of every snapshot instrument is written
\* exactly once, by the thread whose index maps to it, and the best peer of
\* every other instrument is left as it was.
\* ------------------------------------------------------------------------
Table == 0..(MAX_INSTRUMENTS - 1)

C22_History(e) == << e.ma_history, e.ma_count >>
C22_Window(e) == << e.trades, e.trade_count >>

\* entry e2 is e but for its trade window
C22_SameButWindow(e, e2) ==
    e2 = [e EXCEPT !.trades = e2.trades, !.trade_count = e2.trade_count]

C22_JoinStep == s_pc = "join" /\ s_pc' = "head"
C22_SpawnStep == s_pc = "spawn" /\ s_pc' = "join"

\* in a running correlation, the entries that carry the cycle's time are
\* those whose thread is done
C22_WrittenIffDone ==
    (s_pc = "join" /\ corr_array.allocated) =>
        \A i \in DOMAIN corr_array.data :
            (w_pc[i] = "done") <=>
               (instruments[corr_array.data[i].global_index].max_corr_time
                   = s_local.now)

C22_FieldOwnership ==
    [][/\ CriticalStep =>
             /\ \A g \in Live :
                   /\ C22_SameButWindow(instruments[g], instruments'[g])
                   /\ g # m_local'.entry => instruments'[g] = instruments[g]
             /\ \A g \in Table \ Live :
                   g # m_local'.entry => instruments'[g] = instruments[g]
             /\ num_instruments' \in {num_instruments, num_instruments + 1}
             /\ num_instruments' # num_instruments =>
                   m_local'.entry = num_instruments
       /\ \A g \in Table :
             C22_History(instruments'[g]) # C22_History(instruments[g]) =>
                AggregateStep
       /\ \A g \in Live :
             best_peer(instruments'[g]) # best_peer(instruments[g]) =>
                \E i \in DOMAIN corr_array.data :
                   WriteStep(i) /\ corr_array.data[i].global_index = g
       /\ \A i \in Workers :
             WriteStep(i) =>
                /\ i \in DOMAIN corr_array.data
                /\ \A g \in Table :
                      g # corr_array.data[i].global_index =>
                         instruments'[g] = instruments[g]
                /\ instruments'[corr_array.data[i].global_index].max_corr_time
                      = s_local.now
       /\ \A i \in Workers :
             /\ w_pc[i] = "done" => w_pc'[i] \in {"done", "none"}
             /\ (w_pc'[i] = "compute" /\ w_pc[i] # "compute") =>
                   C22_SpawnStep /\ i \in DOMAIN corr_array.data
       /\ C22_SpawnStep => \A i \in DOMAIN corr_array.data :
                              w_pc'[i] = "compute"
       /\ C22_JoinStep => \A i \in DOMAIN corr_array.data : w_pc[i] = "done"
       /\ C22_WrittenIffDone']_vars

\* during a correlation a trade has been stored for a snapshot instrument
\* whose thread has written its best peer
C22_Witness ==
    /\ s_pc = "join"
    /\ m_pc = "print"
    /\ m_local.logged # << >>
    /\ \E i \in Workers :
          /\ written(i)
          /\ corr_array.data[i].global_index = m_local.entry
          /\ instruments[m_local.entry].max_corr # DInt(-2)
          /\ instruments[m_local.entry].max_corr_time = s_local.now

\* ------------------------------------------------------------------------
\* C23.  Any two entries of a snapshot carry the same timestamp at every
\* position of their histories, also when their instruments were created
\* in different minutes: correlating position by position correlates
\* minute by minute.
\* ------------------------------------------------------------------------
C23_Aligned(h1, h2) ==
    \A k \in 0..(MA_HISTORY_SIZE - 1) : h1[k].timestamp = h2[k].timestamp

C23_SnapshotAligned ==
    corr_array.allocated =>
        \A i, j \in DOMAIN corr_array.data :
            C23_Aligned(corr_array.data[i].ma, corr_array.data[j].ma)

\* a snapshot holds an instrument that the previous cycle correlated and
\* one that no thread has ever written, which that cycle's snapshot
\* therefore did not hold: its history became full a cycle later
C23_Witness ==
    /\ corr_array.allocated
    /\ s_pc = "spawn"
    /\ \E i, j \in DOMAIN corr_array.data :
          LET ei == instruments[corr_array.data[i].global_index]
              ej == instruments[corr_array.data[j].global_index]
          IN  /\ ei.max_corr_time
                    = corr_array.data[i].ma[MA_HISTORY_SIZE - 2].timestamp
              /\ ej.max_corr_time = 0
              /\ ej.max_corr = DInt(-2)
              /\ ej.max_corr_symbol = NA
              /\ C23_Aligned(corr_array.data[i].ma, corr_array.data[j].ma)
              /\ corr_array.data[i].ma[MA_HISTORY_SIZE - 1].timestamp
                    = s_local.now

\* ------------------------------------------------------------------------
\* C24.  In every reachable state the best peer of every instrument is
\* well-formed: its symbol is "N/A" exactly when its correlation is the
\* sentinel -2.0; otherwise the symbol is the identifier of another
\* instrument of the table, never the instrument's own, that had a full
\* history in the cycle stamped by the best peer's time, and the
\* correlation lies in [-1, 1].
\* ------------------------------------------------------------------------
C24_InRange(c) == ~isnan(c) /\ DGe(c, DInt(-1)) /\ DGe(DInt(1), c)

\* entry h had a full history in the cycle at time t
C24_FullAt(h, t) ==
    /\ instruments[h].ma_count = MA_HISTORY_SIZE
    /\ t <= instruments[h].ma_history[MA_HISTORY_SIZE - 1].timestamp

\* all of the claim but "never the instrument's own identifier"
C24_PeerInTable ==
    \A g \in Live :
        LET e == instruments[g]
        IN  /\ (e.max_corr_symbol = NA) <=> (e.max_corr = DInt(-2))
            /\ e.max_corr # DInt(-2) =>
                  /\ \E h \in Live \ {g} :
                        /\ instruments[h].instrument = e.max_corr_symbol
                        /\ C24_FullAt(h, e.max_corr_time)
                  /\ C24_InRange(e.max_corr)

C24_BestPeerWellFormed ==
    /\ C24_PeerInTable
    /\ \A g \in Live :
          instruments[g].max_corr # DInt(-2) =>
             instruments[g].max_corr_symbol # instruments[g].instrument

\* ------------------------------------------------------------------------
\* Fair scheduling.  The threads that are inside save_trade, inside an
\* iteration of per_minute_worker past its sleep, or inside
\* compute_corr_thread are not all left waiting for ever.  The clock, the
\* transport, the signal and the sleeps are under no obligation.
\* ------------------------------------------------------------------------
\* the steps at a lock, an unlock, a thread creation or a join
LockStep ==
    \/ save_trade_lock
    \/ save_trade_critical
    \/ save_trade_print
    \/ per_minute_worker_lock
    \/ per_minute_worker_spawn
    \/ per_minute_worker_skip
    \/ per_minute_worker_join
    \/ \E i \in Workers : compute_corr_thread_lock(i)
    \/ \E i \in Workers : compute_corr_thread_write(i)

\* the two computing steps, per_minute_worker_aggregate and
\* compute_corr_thread_compute, told by the thread's position, and their
\* enabling condition, read off their guards
ComputeStep ==
    \/ s_pc = "aggregate" /\ s_pc' = "spawn"
    \/ \E i \in Workers : w_pc[i] = "compute" /\ w_pc'[i] = "lock"

ComputeCanRun ==
    ~crashed /\ (s_pc = "aggregate" \/ \E i \in Workers : w_pc[i] = "compute")

\* weak fairness of both kinds of step; for the computing steps it is
\* WF_vars(ComputeStep /\ Next) with the enabling condition written out
Fairness ==
    /\ WF_vars(LockStep)
    /\ ([]<>(~ComputeCanRun) \/ []<><<ComputeStep>>_vars)

\* some thread inside an operation can take a step
ThreadCanRun ==
    /\ ~crashed
    /\ \/ m_pc = "lock" /\ ma_mutex = FREE
       \/ m_pc \in {"critical", "print"}
       \/ s_pc = "lock" /\ ma_mutex = FREE
       \/ s_pc \in {"aggregate", "spawn"}
       \/ s_pc = "join" /\ all_joined(w_pc, valid_count)
       \/ \E i \in Workers : w_pc[i] \in {"compute", "write"}
       \/ \E i \in Workers : w_pc[i] = "lock" /\ ma_mutex = FREE

\* the prefixes of the fair runs: a full table of three instruments with a
\* correlation ahead and one more trade to come, and a table whose next
\* cycle has a single full history
FairScenarios ==
    { [script |-> ScriptLate, trades |-> MaxTrades - 1, ticks |-> MaxTicks - 2],
      [script |-> ScriptOne, trades |-> MaxTrades - 2, ticks |-> MaxTicks - 2] }

FairInit ==
    \E sc \in FairScenarios :
    LET st == replay(sc.script, 1, Constructed)
    IN
    /\ clock = st.clock
    /\ instruments = st.instruments
    /\ num_instruments = st.num_instruments
    /\ s_local = [NoCycle EXCEPT !.now = st.now]
    /\ trades_left = sc.trades
    /\ ticks_left = sc.ticks
    /\ destroy_flag = FALSE
    /\ ma_mutex = FREE
    /\ m_pc = "service"
    /\ m_local = NoTrade
    /\ s_pc = "head"
    /\ s_eintr = FALSE
    /\ corr_array = Freed
    /\ w_pc = [i \in Workers |-> "none"]
    /\ w_local = [i \in Workers |-> NoThread]
    /\ fault = "none"
    /\ crashed = FALSE

FairSpec == FairInit /\ [][Next]_vars /\ Fairness

\* ------------------------------------------------------------------------
\* C25.  Lock discipline and progress.  Every thread that takes ma_mutex
\* (save_trade, per_minute_worker, a correlation thread) releases it on
\* every path: no thread holds it while it sleeps, joins or after it has
\* returned, and no thread waits for a lock that is never released.  Under
\* fair scheduling every correlation thread takes the lock, writes back
\* and ends, and the joins of per_minute_worker complete.
\* ------------------------------------------------------------------------
\* the owner of the mutex is in its critical section, and only it
C25_HeldInCriticalSection ==
    /\ (ma_mutex = MAIN) <=> (m_pc = "critical")
    /\ (ma_mutex = MINUTE_THREAD) <=> (s_pc = "aggregate")
    /\ \A i \in Workers : (ma_mutex = CORR_THREAD(i)) <=> (w_pc[i] = "write")
    /\ ma_mutex \in {FREE, MAIN, MINUTE_THREAD} \cup {CORR_THREAD(i) : i \in Workers}

\* the threads of the running correlation
C25_Running == {i \in Workers : w_pc[i] \in {"compute", "lock", "write"}}

\* while a thread is inside save_trade, a cycle or a correlation, some
\* thread can take a step
C25_NoDeadlock ==
    (/\ ~crashed
     /\ \/ m_pc \in {"lock", "critical", "print"}
        \/ s_pc \in {"lock", "aggregate", "spawn", "join"}
        \/ C25_Running # {}) => ThreadCanRun

C25_LockDiscipline == C25_HeldInCriticalSection /\ C25_NoDeadlock

C25_LockAndProgress ==
    /\ []C25_LockDiscipline
    /\ (C25_Running # {}) ~> (C25_Running = {})
    /\ (s_pc = "join") ~> (s_pc = "head")

\* the same, for the runs in which the process is not killed
C25_ProgressUnlessKilled ==
    /\ []C25_LockDiscipline
    /\ (C25_Running # {}) ~> (C25_Running = {} \/ crashed)
    /\ (s_pc = "join") ~> (s_pc = "head" \/ crashed)

====
